---- MODULE Spec2Model ----
(***************************************************************************)
(* A model of app.py: the module-level start-up that configures the model  *)
(* client, and the three request handlers /generate_question,              *)
(* /evaluate_answer and /test_llm.  Text is a sequence of tokens (a token  *)
(* is one character, or one word that holds no brace and no blank), JSON   *)
(* values are tagged records, and the model client is a nondeterministic   *)
(* reply.  Every handler runs as one step: the handlers share no state.    *)
(***************************************************************************)
EXTENDS Integers, Sequences, FiniteSets, TLC

VARIABLES
    pc,          \* "boot" | "exited" | "serving" (waiting for a request) | "answered"
    apiKey,      \* what os.getenv("OPENROUTER_API_KEY") returns
    flaskLegacy, \* TRUE: a Flask whose request.json gives None for a non-JSON content type
    llm,         \* "none" | "configured": the module-level model client
    req,         \* the request being answered (route, body, files and model reply it meets)
    resp,        \* the HTTP response to req
    sent,        \* the messages handed to the model client while answering req
    local        \* the locals of evaluate_answer: is_correct and correct_answer

vars == <<pc, apiKey, flaskLegacy, llm, req, resp, sent, local>>

(***************************************************************************)
(* Bounds of the model.                                                    *)
(***************************************************************************)
\* longest student_answer text, in tokens
MaxStudentLen == 3
\* longest question_data.answer text, in tokens
MaxAnsLen == 2
\* longest caller text probed in question, explanation, topic or prompt
MaxTextLen == 3
\* longest options list a model reply carries
MaxOptions == 6

\* the number of options both prompts of generate_question ask for
ExpectedOptions == 5

(***************************************************************************)
(* Text.                                                                   *)
(***************************************************************************)
SeqsUpTo(S, n) == UNION {[1..k -> S] : k \in 0..n}

\* str.lower() on one token
LowerTok(c) ==
    CASE c = "B" -> "b"
      [] c = "C" -> "c"
      [] c = "None" -> "none"
      [] c = "True" -> "true"
      [] c = "False" -> "false"
      [] OTHER -> c

\* str.lower()
Lower(s) == [i \in 1..Len(s) |-> LowerTok(s[i])]

IsSpace(c) == c = " "

RECURSIVE LStrip(_)
LStrip(s) == IF s # <<>> /\ IsSpace(Head(s)) THEN LStrip(Tail(s)) ELSE s

RECURSIVE RStrip(_)
RStrip(s) ==
    IF s # <<>> /\ IsSpace(s[Len(s)]) THEN RStrip(SubSeq(s, 1, Len(s) - 1)) ELSE s

\* a plausible slip: only the leading blanks are removed
StripLeadingOnly(s) == LStrip(s)

\* str.strip()
Strip(s) == RStrip(LStrip(s))

(***************************************************************************)
(* JSON values as Python sees them after request.json / json.loads.        *)
(***************************************************************************)
\* a key the dictionary does not hold: dict.get gives None
Absent == [t |-> "absent", s |-> <<>>, n |-> 0]
Null == [t |-> "null", s |-> <<>>, n |-> 0]
StrV(s) == [t |-> "str", s |-> s, n |-> 0]
NumV(n) == [t |-> "num", s |-> <<>>, n |-> n]
BoolV(b) == [t |-> "bool", s |-> <<>>, n |-> IF b THEN 1 ELSE 0]
\* a list of n strings
ListV(n) == [t |-> "list", s |-> <<>>, n |-> n]

\* str(True), str(False)
BoolStr(b) == IF b THEN "True" ELSE "False"

\* str(v), and what an f-string or str.format puts in for v
PyStr(v) ==
    CASE v.t = "str" -> v.s
      [] v.t = "num" -> <<ToString(v.n)>>
      [] v.t = "bool" -> <<BoolStr(v.n = 1)>>
      [] v.t = "list" -> <<"[">> \o [i \in 1..v.n |-> "o"] \o <<"]">>
      [] OTHER -> <<"None">>

\* bool(v): what "not v" negates
Truthy(v) ==
    CASE v.t = "str" -> v.s # <<>>
      [] v.t \in {"num", "bool", "list"} -> v.n # 0
      [] OTHER -> FALSE

(***************************************************************************)
(* ChatPromptTemplate with the default "f-string" format:                  *)
(* from_messages parses every message with string.Formatter().parse, and   *)
(* invoke checks that every field is supplied and then formats.            *)
(***************************************************************************)
\* the index of the "}" that closes a field opened before i; 0 when the field
\* meets a "{" or the end of the template first (ValueError)
RECURSIVE FieldEnd(_, _)
FieldEnd(s, i) ==
    IF i > Len(s) THEN 0
    ELSE IF s[i] = "}" THEN i
    ELSE IF s[i] = "{" THEN 0
    ELSE FieldEnd(s, i + 1)

ParseError == [ok |-> FALSE, segs |-> <<>>]

Lit(c) == [field |-> FALSE, text |-> <<c>>]
Field(name) == [field |-> TRUE, text |-> name]

\* string.Formatter().parse from position i: the literal and field segments,
\* "{{" and "}}" being the literals "{" and "}"
RECURSIVE ParseFrom(_, _)
ParseFrom(s, i) ==
    IF i > Len(s) THEN [ok |-> TRUE, segs |-> <<>>]
    ELSE IF s[i] = "{" THEN
        IF i < Len(s) /\ s[i + 1] = "{"
        THEN LET r == ParseFrom(s, i + 2)
             IN  IF r.ok THEN [ok |-> TRUE, segs |-> <<Lit("{")>> \o r.segs] ELSE ParseError
        ELSE LET j == FieldEnd(s, i + 1)
             IN  IF j = 0 THEN ParseError
                 ELSE LET r == ParseFrom(s, j + 1)
                      IN  IF r.ok
                          THEN [ok |-> TRUE,
                                segs |-> <<Field(SubSeq(s, i + 1, j - 1))>> \o r.segs]
                          ELSE ParseError
    ELSE IF s[i] = "}" THEN
        IF i < Len(s) /\ s[i + 1] = "}"
        THEN LET r == ParseFrom(s, i + 2)
             IN  IF r.ok THEN [ok |-> TRUE, segs |-> <<Lit("}")>> \o r.segs] ELSE ParseError
        ELSE ParseError
    ELSE LET r == ParseFrom(s, i + 1)
         IN  IF r.ok THEN [ok |-> TRUE, segs |-> <<Lit(s[i])>> \o r.segs] ELSE ParseError

\* PromptTemplate.from_template(s): ok = FALSE is the ValueError of a stray brace
ParseTemplate(s) == ParseFrom(s, 1)

\* the input variables of a parsed template: its field names
TemplateVars(segs) == {segs[i].text : i \in {k \in 1..Len(segs) : segs[k].field}}

\* the names the caller of invoke supplies, as field names
Supplied(kw) == {<<k>> : k \in DOMAIN kw}

\* invoke's check: a field that kw does not supply is a KeyError
MissingVars(segs, kw) == TemplateVars(segs) \ Supplied(kw)

RECURSIVE FormatSegs(_, _)
FormatSegs(segs, kw) ==
    IF segs = <<>> THEN <<>>
    ELSE (IF Head(segs).field THEN kw[Head(segs).text[1]] ELSE Head(segs).text)
         \o FormatSegs(Tail(segs), kw)

(***************************************************************************)
(* Requests: the body as the client sent it, and what the handler will     *)
(* meet while answering it (the style-guide file, the model's reply).      *)
(***************************************************************************)
SchemaKeys == {"question", "options", "answer", "explanation",
               "is_correct", "feedback", "remediation_topic"}

\* a JSON object over the keys of the two schemas; Absent marks a key it lacks
EmptyObj == [k \in SchemaKeys |-> Absent]

ObjKeys(o) == {k \in SchemaKeys : o[k] # Absent}

\* question_data: t is its JSON type; a dictionary holds the keys in has
QDKeys == {"answer", "question", "explanation", "options"}
RequiredKeys == {"answer", "question", "explanation"}

QD(t, n, has, answer, question, explanation) ==
    [t |-> t, n |-> n, has |-> has,
     answer |-> answer, question |-> question, explanation |-> explanation]

QDAbsent == QD("absent", 0, {}, Absent, Absent, Absent)

\* bool(question_data)
QDTruthy(q) ==
    CASE q.t = "dict" -> q.has # {}
      [] q.t = "list" -> q.n # 0
      [] q.t = "str" -> TRUE
      [] OTHER -> FALSE

\* a reply of the model client: an exception with message msg, or a completion
\* whose text is no JSON ("garbage"), a JSON list, or a JSON object obj
Reply(outcome, msg, kind, obj) ==
    [outcome |-> outcome, msg |-> msg, kind |-> kind, obj |-> obj]

UpstreamFailure == Reply("error", "Connection error.", "none", EmptyObj)
Garbage == Reply("ok", "", "garbage", EmptyObj)
JsonList == Reply("ok", "", "list", EmptyObj)
JsonObject(o) == Reply("ok", "", "object", o)

\* the raw body text of each kind of body
RawOf(body) ==
    CASE body = "malformed" -> "{'topic': Algebra"
      [] body = "null" -> "null"
      [] body = "list" -> "[1]"
      [] body = "form" -> "topic=Algebra"
      [] OTHER -> "{...}"

BaseReq ==
    [route |-> "none", ctype |-> "json", body |-> "object", raw |-> RawOf("object"),
     topic |-> Absent, difficulty |-> Absent, prompt |-> Absent,
     student |-> Absent, qd |-> QDAbsent,
     style |-> [state |-> "ok", text |-> <<"a">>], reply |-> Garbage]

NoReq == BaseReq

\* the bodies that are no JSON object: a non-JSON content type, unparsable
\* JSON, the JSON null and a JSON list
OddBodies(route) ==
    {[BaseReq EXCEPT !.route = route, !.ctype = "form", !.body = "form",
                     !.raw = RawOf("form")]}
    \cup {[BaseReq EXCEPT !.route = route, !.body = b, !.raw = RawOf(b)] :
            b \in {"malformed", "null", "list"}}

TextAlphabet == {"a", "{", "}", "explanation"}
Texts == SeqsUpTo(TextAlphabet, MaxTextLen)

AnsAlphabet == {"B", "b", "C", " "}
AnswerTexts == SeqsUpTo(AnsAlphabet, MaxAnsLen)
StudentTexts == SeqsUpTo(AnsAlphabet, MaxStudentLen)

\* ---- /generate_question
TopicValues == {Absent, StrV(<<"a">>), StrV(<<"{", "a", "}">>), StrV(<<"{">>)}
DifficultyValues == {Absent, StrV(<<"Hard">>)}
StyleFiles ==
    {[state |-> "missing", text |-> <<>>], [state |-> "unreadable", text |-> <<>>],
     [state |-> "ok", text |-> <<"a">>], [state |-> "ok", text |-> <<"{", "a", "}">>]}

QuestionObjects ==
    {[EmptyObj EXCEPT !.question = q, !.options = o, !.answer = a, !.explanation = e] :
        q \in {Absent, StrV(<<"a">>), NumV(5)},
        o \in {Absent, StrV(<<"a">>)} \cup {ListV(n) : n \in (ExpectedOptions - 1)..MaxOptions},
        a \in {Absent, StrV(<<>>), StrV(<<"B">>)},
        e \in {Absent, StrV(<<>>), StrV(<<"a">>)}}

QuestionReplies ==
    {UpstreamFailure, Garbage, JsonList} \cup {JsonObject(o) : o \in QuestionObjects}

GenRequest(tp, d) ==
    [BaseReq EXCEPT !.route = "generate_question", !.topic = tp, !.difficulty = d]

\* ---- /evaluate_answer
FeedbackObjects ==
    {[EmptyObj EXCEPT !.is_correct = c, !.feedback = f, !.remediation_topic = f] :
        c \in {Absent, BoolV(TRUE), BoolV(FALSE), StrV(<<"a">>)},
        f \in {Absent, StrV(<<"a">>)}}

FeedbackReplies ==
    {UpstreamFailure, Garbage, JsonList} \cup {JsonObject(o) : o \in FeedbackObjects}

FullQD(answer, question, explanation) ==
    QD("dict", 0, QDKeys, answer, question, explanation)

\* question_data of every JSON type, and dictionaries holding every subset of keys
QDShapes ==
    {QDAbsent, QD("null", 0, {}, Absent, Absent, Absent),
     QD("str", 0, {}, Absent, Absent, Absent),
     QD("list", 0, {}, Absent, Absent, Absent),
     QD("list", 1, {}, Absent, Absent, Absent)}
    \cup
    {QD("dict", 0, has,
        IF "answer" \in has THEN StrV(<<"B">>) ELSE Absent,
        IF "question" \in has THEN StrV(<<"a">>) ELSE Absent,
        IF "explanation" \in has THEN StrV(<<"a">>) ELSE Absent) : has \in SUBSET QDKeys}

\* the validation cases: every shape of question_data with every kind of
\* student_answer
StudentKinds == {Absent, Null, StrV(<<>>), StrV(<<"B">>), NumV(0), NumV(5)}

\* answers and student answers in every case and spacing
AnswerValues == {StrV(x) : x \in AnswerTexts} \cup {NumV(5)}
StudentValues == {StrV(x) : x \in StudentTexts} \cup {NumV(5)}

\* caller text, braces included, as question, as explanation or as student answer
TextInput(where, x) ==
    [qd |-> FullQD(StrV(<<"B">>),
                   IF where = "question" THEN StrV(x) ELSE StrV(<<"a">>),
                   IF where = "explanation" THEN StrV(x) ELSE StrV(<<"a">>)),
     student |-> IF where = "student_answer" THEN StrV(x) ELSE StrV(<<"B">>)]

Feedback(c) ==
    JsonObject([EmptyObj EXCEPT !.is_correct = BoolV(c), !.feedback = StrV(<<"a">>),
                                !.remediation_topic = StrV(<<"a">>)])

EvalRequest(q, s) ==
    [BaseReq EXCEPT !.route = "evaluate_answer", !.qd = q, !.student = s]

\* ---- /test_llm
PromptValues == {Absent, Null, NumV(5)} \cup {StrV(x) : x \in Texts}
TestReplies == {UpstreamFailure, Garbage, JsonList}

TestRequest(p) == [BaseReq EXCEPT !.route = "test_llm", !.prompt = p]

(***************************************************************************)
(* Responses.  by = "handler": a body the handler built with jsonify;      *)
(* by = "flask": the HTML error page Flask builds for an exception that    *)
(* left the handler.  keys are the keys of the JSON body, msg the text of  *)
(* its error or message key, echo the text of its received_raw_data key,   *)
(* state the text of its status key; kind and obj are the JSON value the   *)
(* handler passed on from the model.                                       *)
(***************************************************************************)
Resp(status, by, keys, state, msg, echo, kind, obj) ==
    [status |-> status, by |-> by, keys |-> keys, state |-> state, msg |-> msg,
     echo |-> echo, kind |-> kind, obj |-> obj]

NoResp == Resp(0, "none", {}, "", "", "", "none", EmptyObj)

\* an exception that leaves the view function: Flask answers an HTTPException
\* with its own code and anything else with 500, as an HTML page
FlaskError(code) == Resp(code, "flask", {}, "", "", "", "none", EmptyObj)

\* jsonify({"error": msg}), status
ErrorJson(status, msg) == Resp(status, "handler", {"error"}, "", msg, "", "none", EmptyObj)

\* a plausible slip: the failure is logged and an empty success is returned
HandlerErrorSwallowed(route, msg) ==
    Resp(200, "handler", {}, "", "", "", "none", EmptyObj)

\* the "except Exception as e" of each handler's model call: 500 with str(e)
HandlerError(route, msg) ==
    IF route = "test_llm"
    THEN Resp(500, "handler", {"status", "message"}, "error", msg, "", "none", EmptyObj)
    ELSE ErrorJson(500, msg)

\* jsonify(response) of what JsonOutputParser returned
PassOn(reply) ==
    Resp(200, "handler", IF reply.kind = "object" THEN ObjKeys(reply.obj) ELSE {},
         "", "", "", reply.kind, reply.obj)

\* what a handler leaves behind: the response, the model invocations, the locals
Out(r, s, l) == [resp |-> r, sent |-> s, local |-> l]

NoLocal == [set |-> FALSE, is_correct |-> FALSE, correct_answer |-> <<>>]

(***************************************************************************)
(* request.json                                                            *)
(***************************************************************************)
\* exc: the exception get_json raises ("" for none); none: it returned None;
\* dict: it returned a dictionary
RequestJson(r, legacy) ==
    IF r.ctype # "json"
    THEN IF legacy
         THEN [exc |-> "", code |-> 0, none |-> TRUE, dict |-> FALSE]
         ELSE [exc |-> "415 Unsupported Media Type", code |-> 415,
               none |-> FALSE, dict |-> FALSE]
    ELSE IF r.body = "malformed"
         THEN [exc |-> "400 Bad Request", code |-> 400, none |-> FALSE, dict |-> FALSE]
         ELSE [exc |-> "", code |-> 0, none |-> r.body = "null", dict |-> r.body = "object"]

\* one invocation of the model client
Message(roles, system, human) == [roles |-> roles, system |-> system, human |-> human]

\* prompt | llm | JsonOutputParser: the model's failure and a completion that
\* is no JSON are exceptions; any JSON value is returned as it is
ChainResult(route, reply) ==
    IF reply.outcome = "error" THEN HandlerError(route, reply.msg)
    ELSE IF reply.kind = "garbage" THEN HandlerError(route, "Invalid json output")
    ELSE PassOn(reply)

(***************************************************************************)
(* /generate_question                                                      *)
(***************************************************************************)
GenSystemTemplate(style) ==
    <<"You are an expert GMAT quantitative question designer.">> \o style
    \o <<"Generate a GMAT-style Multiple Choice question with 5 options (A, B, C, D, E).">>

GenHumanTemplate(difficulty, topic) ==
    <<"Generate a ">> \o PyStr(difficulty)
    \o <<" difficulty GMAT Quant question on the topic of ">> \o PyStr(topic)
    \o <<". Provide 5 options (A, B, C, D, E).">>

GenerateQuestionHandler(r, legacy) ==
    LET j == RequestJson(r, legacy)
        topic == IF r.topic = Absent THEN StrV(<<"Algebra">>) ELSE r.topic
        difficulty == IF r.difficulty = Absent THEN StrV(<<"Medium">>) ELSE r.difficulty
        sys == ParseTemplate(GenSystemTemplate(r.style.text))
        hum == ParseTemplate(GenHumanTemplate(difficulty, topic))
        kw == [k \in {"topic", "difficulty"} |->
                 IF k = "topic" THEN PyStr(topic) ELSE PyStr(difficulty)]
    IN  IF j.exc # "" THEN Out(FlaskError(j.code), <<>>, NoLocal)
        ELSE IF ~j.dict THEN Out(FlaskError(500), <<>>, NoLocal)
        ELSE IF r.style.state = "missing"
        THEN Out(ErrorJson(500, "gmat_style_guide.txt not found. Make sure it's in the same folder."),
                 <<>>, NoLocal)
        ELSE IF r.style.state # "ok" THEN Out(FlaskError(500), <<>>, NoLocal)
        ELSE IF ~sys.ok \/ ~hum.ok THEN Out(FlaskError(500), <<>>, NoLocal)
        ELSE IF MissingVars(sys.segs, kw) \cup MissingVars(hum.segs, kw) # {}
        THEN Out(HandlerError(r.route, "Input to ChatPromptTemplate is missing variables"),
                 <<>>, NoLocal)
        ELSE Out(ChainResult(r.route, r.reply),
                 <<Message(<<"system", "human">>, FormatSegs(sys.segs, kw),
                           FormatSegs(hum.segs, kw))>>, NoLocal)

(***************************************************************************)
(* /evaluate_answer                                                        *)
(***************************************************************************)
\* a plausible slip: any() for all(), so one required key is enough
ValidateAnyKey(q, s) ==
    IF ~QDTruthy(q) \/ ~Truthy(s) THEN "missing"
    ELSE IF q.t # "dict" \/ RequiredKeys \cap q.has = {} THEN "format"
    ELSE "ok"

\* the two checks on question_data and student_answer
Validate(q, s) ==
    IF ~QDTruthy(q) \/ ~Truthy(s) THEN "missing"
    ELSE IF q.t # "dict" \/ ~(RequiredKeys \subseteq q.has) THEN "format"
    ELSE "ok"

\* str(x).strip().lower()
Normalize(v) == Lower(Strip(PyStr(v)))

EvalSystemTemplate ==
    <<"You are a supportive and insightful GMAT tutor.",
      "Your output MUST be a JSON object conforming to the FeedbackOutput schema.">>

EvalHumanTemplate(question_text, student_answer, correct_answer, is_correct, explanation) ==
    <<"Student's question: ">> \o PyStr(question_text)
    \o <<"Student's answer: ">> \o PyStr(student_answer)
    \o <<"Correct answer: ">> \o correct_answer
    \o <<"Is correct: ", BoolStr(is_correct)>>
    \o <<"Detailed explanation: ">> \o PyStr(explanation)

EvaluateAnswerHandler(r, legacy) ==
    LET j == RequestJson(r, legacy)
        question_data == r.qd
        student_answer == r.student
        correct_answer == Normalize(question_data.answer)
        question_text == question_data.question
        explanation == question_data.explanation
        is_correct == Normalize(student_answer) = correct_answer
        l == [set |-> TRUE, is_correct |-> is_correct, correct_answer |-> correct_answer]
        sys == ParseTemplate(EvalSystemTemplate)
        hum == ParseTemplate(EvalHumanTemplate(question_text, student_answer,
                                               correct_answer, is_correct, explanation))
        kw == [k \in {"question_text", "student_answer", "correct_answer",
                      "is_correct", "explanation"} |->
                 CASE k = "question_text" -> PyStr(question_text)
                   [] k = "student_answer" -> PyStr(student_answer)
                   [] k = "correct_answer" -> correct_answer
                   [] k = "is_correct" -> <<BoolStr(is_correct)>>
                   [] OTHER -> PyStr(explanation)]
        v == Validate(question_data, student_answer)
    IN  IF j.exc # ""
        THEN Out(Resp(400, "handler", {"error", "traceback"}, "",
                      "Failed to read request data: " \o j.exc, "", "none", EmptyObj),
                 <<>>, NoLocal)
        ELSE IF j.none
        THEN Out(Resp(400, "handler", {"error", "received_raw_data"}, "",
                      "Could not parse JSON body. Ensure Content-Type is 'application/json' and body is valid JSON.",
                      r.raw, "none", EmptyObj),
                 <<>>, NoLocal)
        ELSE IF ~j.dict THEN Out(FlaskError(500), <<>>, NoLocal)
        ELSE IF v = "missing"
        THEN Out(ErrorJson(400, "Missing 'question_data' or 'student_answer' in request body."),
                 <<>>, NoLocal)
        ELSE IF v = "format"
        THEN Out(ErrorJson(400, "Invalid 'question_data' format. Required keys: 'answer', 'question', 'explanation'."),
                 <<>>, NoLocal)
        ELSE IF ~sys.ok \/ ~hum.ok THEN Out(FlaskError(500), <<>>, l)
        ELSE IF MissingVars(sys.segs, kw) \cup MissingVars(hum.segs, kw) # {}
        THEN Out(HandlerError(r.route, "Input to ChatPromptTemplate is missing variables"),
                 <<>>, l)
        ELSE Out(ChainResult(r.route, r.reply),
                 <<Message(<<"system", "human">>, FormatSegs(sys.segs, kw),
                           FormatSegs(hum.segs, kw))>>, l)

(***************************************************************************)
(* /test_llm                                                               *)
(***************************************************************************)
\* a plausible slip: no default, the empty prompt is sent
DefaultPromptEmpty == <<>>

\* the default of data.get('prompt', ...)
DefaultPrompt == <<"Say 'Hello, AI is working!'">>

TestLlmHandler(r, legacy) ==
    LET j == RequestJson(r, legacy)
        user_prompt == IF r.prompt = Absent THEN StrV(DefaultPrompt) ELSE r.prompt
        hum == ParseTemplate(<<"{", "user_prompt", "}">>)
        kw == [k \in {"user_prompt"} |-> PyStr(user_prompt)]
        m == Message(<<"human">>, <<>>, FormatSegs(hum.segs, kw))
    IN  IF j.exc # ""
        THEN Out(Resp(400, "handler", {"status", "message", "traceback"}, "error",
                      "Failed to read request data for /test_llm: " \o j.exc, "",
                      "none", EmptyObj),
                 <<>>, NoLocal)
        ELSE IF j.none
        THEN Out(Resp(400, "handler", {"status", "message", "received_raw_data"}, "error",
                      "Could not parse JSON body for /test_llm. Ensure Content-Type is 'application/json' and body is valid JSON.",
                      r.raw, "none", EmptyObj),
                 <<>>, NoLocal)
        ELSE IF ~j.dict
        THEN Out(HandlerError(r.route, "'list' object has no attribute 'get'"), <<>>, NoLocal)
        ELSE IF r.reply.outcome = "error"
        THEN Out(HandlerError(r.route, r.reply.msg), <<m>>, NoLocal)
        ELSE Out(Resp(200, "handler", {"status", "response"}, "success", "", "",
                      r.reply.kind, r.reply.obj),
                 <<m>>, NoLocal)

(***************************************************************************)
(* The process.                                                            *)
(***************************************************************************)
Init ==
    /\ pc = "boot"
    /\ apiKey \in {"absent", "empty", "present"}
    /\ flaskLegacy \in BOOLEAN
    /\ llm = "none"
    /\ req = NoReq
    /\ resp = NoResp
    /\ sent = <<>>
    /\ local = NoLocal

\* a plausible slip: the missing key is logged and the module goes on loading
StartupKeepsServing ==
    /\ pc = "boot"
    /\ pc' = "serving"
    /\ llm' = IF apiKey = "present" THEN "configured" ELSE "none"
    /\ UNCHANGED <<apiKey, flaskLegacy, req, resp, sent, local>>

\* the module-level try block: with a non-empty key ChatOpenAI is built (or
\* its constructor raises); anything raised ends in exit(1)
Startup ==
    /\ pc = "boot"
    /\ \E built \in BOOLEAN :
         IF apiKey = "present" /\ built
         THEN pc' = "serving" /\ llm' = "configured"
         ELSE pc' = "exited" /\ llm' = "none"
    /\ UNCHANGED <<apiKey, flaskLegacy, req, resp, sent, local>>

Serve(r, out) ==
    /\ req' = r
    /\ resp' = out.resp
    /\ sent' = out.sent
    /\ local' = out.local
    /\ pc' = "answered"
    /\ UNCHANGED <<apiKey, flaskLegacy, llm>>

\* a request meets the style-guide file s and the model reply m
Meets(r, s, m) == [r EXCEPT !.style = s, !.reply = m]

GenerateQuestion ==
    /\ pc = "serving"
    /\ \E s \in StyleFiles :
         \/ \E r \in OddBodies("generate_question"),
               m \in {Garbage, JsonObject([EmptyObj EXCEPT !.question = StrV(<<"a">>)])} :
               Serve(Meets(r, s, m), GenerateQuestionHandler(Meets(r, s, m), flaskLegacy))
         \/ \E tp \in TopicValues, d \in DifficultyValues, m \in QuestionReplies :
               Serve(Meets(GenRequest(tp, d), s, m),
                     GenerateQuestionHandler(Meets(GenRequest(tp, d), s, m), flaskLegacy))

EvaluateAnswer ==
    /\ pc = "serving"
    /\ \/ \E r \in OddBodies("evaluate_answer"), m \in {Garbage, Feedback(TRUE)} :
            Serve(Meets(r, r.style, m), EvaluateAnswerHandler(Meets(r, r.style, m), flaskLegacy))
       \/ \E q \in QDShapes, s \in StudentKinds, m \in FeedbackReplies :
            LET r == Meets(EvalRequest(q, s), BaseReq.style, m)
            IN  Serve(r, EvaluateAnswerHandler(r, flaskLegacy))
       \/ \E a \in AnswerValues, s \in StudentValues,
              m \in {UpstreamFailure, Feedback(TRUE), Feedback(FALSE)} :
            LET r == Meets(EvalRequest(FullQD(a, StrV(<<"a">>), StrV(<<"a">>)), s),
                           BaseReq.style, m)
            IN  Serve(r, EvaluateAnswerHandler(r, flaskLegacy))
       \/ \E where \in {"question", "explanation", "student_answer"}, x \in Texts,
              m \in FeedbackReplies :
            LET i == TextInput(where, x)
                r == Meets(EvalRequest(i.qd, i.student), BaseReq.style, m)
            IN  Serve(r, EvaluateAnswerHandler(r, flaskLegacy))

TestLlm ==
    /\ pc = "serving"
    /\ \E m \in TestReplies :
         \/ \E r \in OddBodies("test_llm") :
               Serve(Meets(r, r.style, m), TestLlmHandler(Meets(r, r.style, m), flaskLegacy))
         \/ \E p \in PromptValues :
               LET r == Meets(TestRequest(p), BaseReq.style, m)
               IN  Serve(r, TestLlmHandler(r, flaskLegacy))

\* the response goes out and the dispatcher waits for the next request: nothing
\* of the request outlives it
Dispatch ==
    /\ pc = "answered"
    /\ pc' = "serving"
    /\ req' = NoReq
    /\ resp' = NoResp
    /\ sent' = <<>>
    /\ local' = NoLocal
    /\ UNCHANGED <<apiKey, flaskLegacy, llm>>

Next == Startup \/ GenerateQuestion \/ EvaluateAnswer \/ TestLlm \/ Dispatch

Spec == Init /\ [][Next]_vars

(***************************************************************************)
(* The properties.                                                         *)
(***************************************************************************)
\* the response to a request on this route that carried a JSON object
Answered(route) ==
    pc = "answered" /\ req.route = route /\ req.ctype = "json" /\ req.body = "object"

\* a record of the QuestionOutput shape with 5 options and a non-empty answer
\* and explanation
WellFormedQuestion(kind, o) ==
    /\ kind = "object"
    /\ o.question.t = "str"
    /\ o.options.t = "list" /\ o.options.n = ExpectedOptions
    /\ o.answer.t = "str" /\ o.answer.s # <<>>
    /\ o.explanation.t = "str" /\ o.explanation.s # <<>>

\* C1: /generate_question answers a JSON object either 200 with a well-formed
\* question record (5 options, non-empty answer and explanation) or 500.
C1_WellFormedOr500 ==
    Answered("generate_question") =>
        \/ resp.status = 500
        \/ resp.status = 200 /\ WellFormedQuestion(resp.kind, resp.obj)

\* the text of a JSON scalar
TextOf(v) == IF v.t = "str" THEN v.s ELSE IF v.t = "num" THEN <<ToString(v.n)>> ELSE <<"None">>

SameLetter(x, y) == x = y \/ {x, y} = {"B", "b"} \/ {x, y} = {"C", "c"}

\* a and b are blanks, a core without outer blanks, blanks, and the two cores
\* are the same length and letter for letter the same up to case
SameUpToCaseAndOuterBlanks(a, b) ==
    \E i \in 1..(Len(a) + 1), j \in 0..Len(a), k \in 1..(Len(b) + 1), l \in 0..Len(b) :
        /\ \A x \in 1..(i - 1) : a[x] = " "
        /\ \A x \in (j + 1)..Len(a) : a[x] = " "
        /\ \A x \in 1..(k - 1) : b[x] = " "
        /\ \A x \in (l + 1)..Len(b) : b[x] = " "
        /\ j >= i - 1 /\ l >= k - 1
        /\ j >= i => a[i] # " " /\ a[j] # " "
        /\ l >= k => b[k] # " " /\ b[l] # " "
        /\ j - i = l - k
        /\ \A x \in 0..(j - i) : SameLetter(a[i + x], b[k + x])

\* C2: for every accepted request of /evaluate_answer, is_correct is true
\* exactly when the student answer and the stored answer, as text, are equal up
\* to case and to leading and trailing blanks ("B" and " b " match, "B" and "C"
\* do not).
C2_IsCorrectIgnoresCaseAndBlanks ==
    Answered("evaluate_answer") /\ local.set =>
        /\ local.is_correct
             = SameUpToCaseAndOuterBlanks(TextOf(req.student), TextOf(req.qd.answer))
        /\ req.qd.answer = StrV(<<"B">>) /\ req.student = StrV(<<" ", "b", " ">>)
             => local.is_correct
        /\ req.qd.answer = StrV(<<"B">>) /\ req.student = StrV(<<"C">>)
             => ~local.is_correct

C2_Witness ==
    /\ Answered("evaluate_answer") /\ local.set
    /\ req.qd.answer = StrV(<<"B">>) /\ req.student = StrV(<<" ", "b", " ">>)
    /\ local.is_correct

\* question_data or student_answer is missing or empty
MissingInput == ~QDTruthy(req.qd) \/ ~Truthy(req.student)

\* question_data is no dictionary, or lacks a required key
BadQuestionData == req.qd.t # "dict" \/ ~({"answer", "question", "explanation"} \subseteq req.qd.has)

C4_MalformedBodyEchoed ==
    pc = "answered" /\ req.ctype = "json" /\ req.body = "malformed" =>
        /\ resp.status = 400
        /\ "received_raw_data" \in resp.keys /\ resp.echo = req.raw
        /\ sent = <<>>

\* C5: on every route, when the model was invoked and the invocation failed, the
\* response is the handler's 500 whose error (or message) key carries the
\* failure's message, and the model was invoked once.
C5_ModelFailureIs500 ==
    pc = "answered" /\ sent # <<>> /\ req.reply.outcome = "error" =>
        /\ resp.status = 500
        /\ resp.by = "handler"
        /\ resp.keys \cap {"error", "message"} # {}
        /\ resp.msg = req.reply.msg
        /\ Len(sent) = 1

C5_Witness ==
    /\ pc = "answered" /\ req.route = "generate_question"
    /\ Len(sent) = 1 /\ req.reply.outcome = "error"
    /\ resp.status = 500 /\ resp.msg = "Connection error."

\* C6: every request, whatever its body, is answered by the handler itself with
\* a JSON body, and every failure carries an error or a message key.
C6_NoErrorEscapes ==
    pc = "answered" =>
        /\ resp.by = "handler"
        /\ resp.status # 200 => resp.keys \cap {"error", "message"} # {}

\* C7: the is_correct of a 200 response of /evaluate_answer is the boolean the
\* handler computed itself.
C7_LocalCorrectnessIsReturned ==
    Answered("evaluate_answer") /\ local.set /\ resp.status = 200 =>
        resp.kind = "object" /\ resp.obj.is_correct = BoolV(local.is_correct)

\* C8: requests are served only by a process that found the API key and built
\* the model client; without the key the process never serves, answers nothing
\* and has no model client.
C8_NoKeyNoService ==
    /\ pc \in {"serving", "answered"} => apiKey = "present" /\ llm = "configured"
    /\ apiKey # "present" =>
         /\ pc \in {"boot", "exited"}
         /\ llm = "none"
         /\ req = NoReq /\ resp = NoResp /\ sent = <<>>

C8_Witness == pc = "exited" /\ apiKey = "absent" /\ llm = "none"

\* C9: /test_llm sends one human message and no system message: the literal
\* default when the body has no prompt key, the prompt when it has one; a
\* completion is answered 200 with status "success" and the completion as it
\* came.
C9_TestPrompt ==
    Answered("test_llm") =>
        /\ Len(sent) = 1
        /\ sent[1].roles = <<"human">>
        /\ req.prompt = Absent => sent[1].human = <<"Say 'Hello, AI is working!'">>
        /\ req.prompt # Absent => sent[1].human = TextOf(req.prompt)
        /\ req.reply.outcome = "ok" =>
             /\ resp.status = 200
             /\ resp.keys = {"status", "response"} /\ resp.state = "success"
             /\ resp.kind = req.reply.kind /\ resp.obj = req.reply.obj

C9_Witness ==
    /\ Answered("test_llm") /\ req.prompt = Absent /\ req.reply.outcome = "ok"
    /\ resp.status = 200 /\ resp.state = "success"
    /\ sent = <<Message(<<"human">>, <<>>, <<"Say 'Hello, AI is working!'">>)>>

\* s holds t as a run of consecutive tokens
Contains(s, t) == \E i \in 0..(Len(s) - Len(t)) : SubSeq(s, i + 1, i + Len(t)) = t

\* a reply of the FeedbackOutput shape
ConformingFeedback(m) ==
    /\ m.outcome = "ok" /\ m.kind = "object"
    /\ m.obj.is_correct.t = "bool"
    /\ m.obj.feedback.t = "str"
    /\ m.obj.remediation_topic.t = "str"

\* C10: an accepted request of /evaluate_answer whose model reply conforms is
\* answered 200 whatever the caller's text, and the human message holds the
\* question, the explanation and the student answer as they were supplied.
C10_CallerTextVerbatim ==
    /\ Answered("evaluate_answer")
    /\ ~MissingInput /\ ~BadQuestionData
    /\ ConformingFeedback(req.reply)
    => /\ resp.status = 200
       /\ Len(sent) = 1
       /\ Contains(sent[1].human, <<"Student's question: ">> \o TextOf(req.qd.question)
                                    \o <<"Student's answer: ">> \o TextOf(req.student)
                                    \o <<"Correct answer: ">>)
       /\ Contains(sent[1].human, <<"Detailed explanation: ">> \o TextOf(req.qd.explanation))

====
